---- MODULE Spec2Model ----
(***************************************************************************)
(* The distributed lock of package cache (TryLock, Lock, Unlock, Extend,   *)
(* IsLocked, GetTTL, WithLock, generateLockValue) over a Redis store.      *)
(* Durations are counted in ticks of half a second, so that a duration     *)
(* that is not a whole number of seconds can be written.  The state keeps  *)
(* the time that is left of each timer (a key's expiry, lockCtx's          *)
(* deadline, time.After's delay); Tick lets one tick pass for all of them. *)
(* The tokens of package auth (GenerateToken, ValidateToken, NewClaims,    *)
(* Claims.IsExpired) are modelled next to it, with a clock of their own:   *)
(* SpecAuth issues, makes up and validates tokens as the clock advances.   *)
(***************************************************************************)
EXTENDS Integers, FiniteSets, Sequences, TLC

\* ---------------------------------------------------------------- bounds
MaxTTL == 2
MaxRetriesOpt == 1
MaxDelay == 2
MaxClock == 4

\* One second is two ticks: int64(ttl.Seconds()) drops the odd tick.
TicksPerSecond == 2

Callers == {"c1", "c2"}
Keys == {"k1"}
TTLs == 0..MaxTTL
\* Two readings of time.Now().UnixNano(); a wall clock may repeat a reading.
UnixNanos == {0, 1}

\* ---------------------------------------------------------------- errors
\* An error is its chain of wrapped errors, outermost message first.
nil == <<>>
ErrLockNotAcquired == <<"lock not acquired">>
ErrLockNotOwned == <<"lock not owned by current process">>
DeadlineExceeded == <<"context deadline exceeded">>
StoreError == <<"redis: connection error">>

\* fmt.Errorf("msg: %w", err)
Errorf(msg, err) == <<msg>> \o err

\* errors.Is(err, target): some error of the chain is the target.
ErrorsIs(err, target) ==
    \E i \in 1..Len(err) : SubSeq(err, i, Len(err)) = target

\* ---------------------------------------------------------------- values
NoValue == [kind |-> "none", n |-> 0]
NoLock == [key |-> "", value |-> NoValue, ttl |-> 0]
NoExpiry == -1
NoDeadline == -1
Absent == [val |-> NoValue, exp |-> 0, by |-> ""]
NoOptions == [TTL |-> 0, RetryDelay |-> 0, MaxRetries |-> 0, LockTimeout |-> 0]
NoReturn == [caller |-> "", op |-> "", err |-> nil]

\* The LockOptions a caller may pass to Lock.
LockOptions ==
    [TTL : {1, MaxTTL}, RetryDelay : 0..MaxDelay, MaxRetries : 0..MaxRetriesOpt,
     LockTimeout : 0..MaxDelay]

\* Two of them: a Lock that retries before its deadline, and a Lock whose
\* deadline comes before its first retry.
Retrying == [TTL |-> MaxTTL, RetryDelay |-> 1, MaxRetries |-> MaxRetriesOpt,
             LockTimeout |-> MaxDelay]
Impatient == [TTL |-> 1, RetryDelay |-> MaxDelay, MaxRetries |-> MaxRetriesOpt,
              LockTimeout |-> 1]

\* The default lock settings, in ticks; 100 ms is less than one tick.
DefaultLockTTL == 30 * TicksPerSecond
DefaultRetryDelay == TicksPerSecond \div 10
DefaultMaxRetries == 10
DefaultLockTimeout == 5 * TicksPerSecond

DefaultLockOptions ==
    [TTL |-> DefaultLockTTL, RetryDelay |-> DefaultRetryDelay,
     MaxRetries |-> DefaultMaxRetries, LockTimeout |-> DefaultLockTimeout]

\* Options whose zero fields are taken from the defaults.
OptionsFilled(opts) ==
    IF Len(opts) > 0
    THEN [f \in DOMAIN DefaultLockOptions |->
             IF opts[1][f] = 0 THEN DefaultLockOptions[f] ELSE opts[1][f]]
    ELSE DefaultLockOptions

\* The options of Lock(ctx, key, opts...): the defaults, or opts[0] as it is.
\* A field the caller left unset has Go's zero value, 0.
OptionsOf(opts) ==
    IF Len(opts) > 0 THEN opts[1] ELSE DefaultLockOptions

VARIABLES
    store,    \* Redis: key -> [val, exp, by], Absent when the key does not exist;
              \* exp is the time left before the key expires, or NoExpiry;
              \* by is not in Redis: it records the caller whose SetNX wrote
              \* the record, for the properties that speak of its owner
    randOK,   \* whether crypto/rand works: rand.Read returns no error
    pc,       \* where each caller is: "idle"; "call" SetNX is sent; "resp" the
              \* store ran it; "wait" in Lock's second select; "fn" in WithLock's fn
    op,       \* the API call a caller is in: "", "TryLock", "Lock", "WithLock"
    key,      \* the key of the acquisition in progress
    options,  \* the LockOptions of the acquisition in progress
    deadline, \* the time left before lockCtx is done (NoDeadline for a plain TryLock)
    retries,  \* Lock's retries
    lastErr,  \* Lock's lastErr
    waitEnd,  \* the time left before time.After(options.RetryDelay) fires
    value,    \* TryLock's value, once the store has it
    reply,    \* the store's reply to the SetNX in flight
    attempts, \* TryLock calls made by the caller's latest Lock
    handle,   \* the *DistributedLock the caller's latest TryLock or Lock returned
    wlLock,   \* WithLock's local lock
    ret,      \* the call that returned in the latest step, [caller, op, err];
              \* NoReturn when the latest step was not the return of a call
    locked,   \* the bool that call returned, when it is an IsLocked
    clock,    \* package auth: the reading of time.Now(), in ticks
    token,    \* the token string that was generated or made up last
    issue,    \* the arguments of the GenerateToken call token comes from,
              \* NoIssue when token does not come from GenerateToken as it is
    validated, \* the latest ValidateToken call: its arguments, the time, and
              \* the claims and the error it returned
    served    \* adapters: the latest request an AuthMiddleware handled, and
              \* what the middleware did with it

vars == <<store, randOK, pc, op, key, options, deadline, retries, lastErr, waitEnd,
          value, reply, attempts, handle, wlLock, ret, locked,
          clock, token, issue, validated, served>>

authVars == <<clock, token, issue, validated, served>>

lockVars == <<op, key, options, deadline, retries, lastErr, waitEnd, value, reply,
              attempts>>

\* The call op of caller c returns err in this step.
Return(c, name, err) ==
    /\ ret' = [caller |-> c, op |-> name, err |-> err]
    /\ locked' = FALSE

\* No call returns in this step.
Running == ret' = NoReturn /\ locked' = FALSE

\* ------------------------------------------------------------ the store
\* SET key value [PX ttl]: the record is written whatever the key holds.
SetAlways(st, k, v, ttl) ==
    [store |-> [st EXCEPT ![k] =
                   [val |-> v, exp |-> IF ttl = 0 THEN NoExpiry ELSE ttl, by |-> ""]],
     reply |-> TRUE]

\* SET key value [PX ttl] NX; a zero expiration is a plain SETNX (no expiry).
SetNX(st, k, v, ttl) ==
    IF st[k] = Absent
    THEN [store |-> [st EXCEPT ![k] =
                        [val |-> v, exp |-> IF ttl = 0 THEN NoExpiry ELSE ttl, by |-> ""]],
          reply |-> TRUE]
    ELSE [store |-> st, reply |-> FALSE]

\* A script that replies 1 to the owner and deletes nothing.
UnlockKeeps(st, k, v) ==
    [store |-> st, reply |-> IF st[k].val = v THEN 1 ELSE 0]

\* Unlock's script: del only if get(KEYS[1]) == ARGV[1].
UnlockScript(st, k, v) ==
    IF st[k].val = v
    THEN [store |-> [st EXCEPT ![k] = Absent], reply |-> 1]
    ELSE [store |-> st, reply |-> 0]

\* EXPIRE key secs: a timeout that is not positive deletes the key; the reply is 1.
RedisExpire(st, k, secs) ==
    IF secs <= 0
    THEN [st EXCEPT ![k] = Absent]
    ELSE [st EXCEPT ![k].exp = secs * TicksPerSecond]

\* A script that sets the expiry whatever value the key holds.
ExtendAlways(st, k, v, secs) ==
    [store |-> IF st[k] = Absent THEN st ELSE RedisExpire(st, k, secs),
     reply |-> IF st[k] = Absent THEN 0 ELSE 1]

\* Extend's script: expire only if get(KEYS[1]) == ARGV[1].
ExtendScript(st, k, v, secs) ==
    IF st[k].val = v
    THEN [store |-> RedisExpire(st, k, secs), reply |-> 1]
    ELSE [store |-> st, reply |-> 0]

\* int64(ttl.Seconds()): the whole seconds of a duration, truncated.
Seconds(ttl) == ttl \div TicksPerSecond

\* TTL key: -2 no such key, -1 no expiry, else the remaining time rounded to
\* a second; go-redis hands -2 and -1 back as those (negative) durations.
RedisTTL(st, k) ==
    IF st[k] = Absent THEN -2
    ELSE IF st[k].exp = NoExpiry THEN -1
    ELSE (((st[k].exp * 1000) \div TicksPerSecond + 500) \div 1000)
             * TicksPerSecond

\* Passive expiry as one tick passes: a key with one tick left no longer
\* exists, the others have one tick less.
Expired(st) ==
    [k \in Keys |->
        IF st[k] = Absent \/ st[k].exp = NoExpiry THEN st[k]
        ELSE IF st[k].exp <= 1 THEN Absent
        ELSE [st[k] EXCEPT !.exp = st[k].exp - 1]]

\* ------------------------------------------------------- generateLockValue
InUse ==
    {store[k].val : k \in Keys} \cup {handle[c].value : c \in Callers}
        \cup {wlLock[c].value : c \in Callers} \cup {value[c] : c \in Callers}

\* hex.EncodeToString of 16 random bytes: a value that no record, lock or call
\* carries (the first of them, as the values differ in nothing else).
RandomHex ==
    [kind |-> "rand",
     n |-> CHOOSE i \in 1..(3 * Cardinality(Callers) + Cardinality(Keys) + 1) :
              /\ [kind |-> "rand", n |-> i] \notin InUse
              /\ \A j \in 1..(i - 1) : [kind |-> "rand", n |-> j] \in InUse]

\* generateLockValue: the random value, or "lock_<UnixNano>" when rand.Read fails.
generateLockValue(ok, nano) ==
    IF ok THEN RandomHex ELSE [kind |-> "time", n |-> nano]

\* ------------------------------------------------------------ package auth
UserIDs == {"user123", "user456"}
Usernames == {"", "testuser"}
Secrets == {"test-secret", "wrong-secret"}
\* The ttl of a GenerateToken call, in ticks: negative, zero, below one
\* second, whole seconds.
Durations == (0 - MaxTTL)..MaxTTL

ErrInvalidToken == <<"invalid token">>
ErrExpiredToken == <<"token expired">>
ErrMalformedToken == <<"malformed token">>
\* The errors of the jwt package.
ErrTokenMalformed == <<"token is malformed">>
ErrTokenUnverifiable == <<"token is unverifiable">>
ErrTokenSignatureInvalid == <<"token signature is invalid">>
ErrTokenExpired == <<"token is expired">>

\* jwt.NewNumericDate(t): t truncated to the second; <<>> is a nil
\* *NumericDate.
NewNumericDate(t) == <<t \div TicksPerSecond>>

\* The time of a date that is not nil, in ticks.
DateTime(d) == d[1] * TicksPerSecond

\* NewClaims(userID, username, ttl), with now the reading of time.Now().
NewClaims(userID, username, ttl, now) ==
    [UserID |-> userID, Username |-> username, Subject |-> userID,
     IssuedAt |-> NewNumericDate(now), ExpiresAt |-> NewNumericDate(now + ttl)]

\* c.IsExpired(), with now the reading of time.Now().
IsExpired(c, now) ==
    IF c.ExpiresAt = <<>> THEN FALSE ELSE DateTime(c.ExpiresAt) < now

\* json.Marshal of Claims: username and the registered claims are omitted
\* when empty (omitempty), a date is its number of seconds.
Marshal(c) ==
    [user_id |-> c.UserID,
     username |-> IF c.Username = "" THEN <<>> ELSE <<c.Username>>,
     sub |-> IF c.Subject = "" THEN <<>> ELSE <<c.Subject>>,
     iat |-> c.IssuedAt, exp |-> c.ExpiresAt]

\* json.Unmarshal into &Claims{}: a field that is absent keeps its zero value.
Unmarshal(p) ==
    [UserID |-> p.user_id,
     Username |-> IF p.username = <<>> THEN "" ELSE p.username[1],
     Subject |-> IF p.sub = <<>> THEN "" ELSE p.sub[1],
     IssuedAt |-> p.iat, ExpiresAt |-> p.exp]

\* The HMAC of header and payload under a key: equal only for equal inputs.
HMAC(alg, payload, secret) == [alg |-> alg, payload |-> payload, key |-> secret]

NoPayload == Marshal(NewClaims("", "", 0, 0))
\* The token string "", and a string that is not three base64 segments.
EmptyString == [kind |-> "empty", alg |-> "", payload |-> NoPayload, sig |-> <<>>]
Garbage == [kind |-> "garbage", alg |-> "", payload |-> NoPayload, sig |-> <<>>]

\* jwt.NewWithClaims(method, claims).SignedString(key)
SignedString(alg, c, secret) ==
    [kind |-> "jwt", alg |-> alg, payload |-> Marshal(c),
     sig |-> <<HMAC(alg, Marshal(c), secret)>>]

\* GenerateToken(userID, username, secret, ttl), with now the reading of
\* time.Now().
GenerateToken(userID, username, secret, ttl, now) ==
    SignedString("HS256", NewClaims(userID, username, ttl, now), secret)

\* The signing methods that are a *jwt.SigningMethodHMAC.
HMACMethods == {"HS256", "HS384", "HS512"}

\* A parser that does not validate the registered claims.
ParseSkipsClaims(tok, secret, now) ==
    LET c == Unmarshal(tok.payload)
    IN  IF tok.kind # "jwt"
        THEN [claims |-> c, valid |-> FALSE, err |-> ErrTokenMalformed]
        ELSE IF tok.alg \notin HMACMethods
        THEN [claims |-> c, valid |-> FALSE, err |-> ErrTokenUnverifiable]
        ELSE IF tok.sig # <<HMAC(tok.alg, tok.payload, secret)>>
        THEN [claims |-> c, valid |-> FALSE, err |-> ErrTokenSignatureInvalid]
        ELSE [claims |-> c, valid |-> TRUE, err |-> nil]

\* A parser that validates the registered claims before the signature.
ParseClaimsFirst(tok, secret, now) ==
    LET c == Unmarshal(tok.payload)
    IN  IF tok.kind # "jwt"
        THEN [claims |-> c, valid |-> FALSE, err |-> ErrTokenMalformed]
        ELSE IF tok.alg \notin HMACMethods
        THEN [claims |-> c, valid |-> FALSE, err |-> ErrTokenUnverifiable]
        ELSE IF c.ExpiresAt # <<>> /\ ~(now < DateTime(c.ExpiresAt))
        THEN [claims |-> c, valid |-> FALSE,
              err |-> Errorf("token has invalid claims", ErrTokenExpired)]
        ELSE IF tok.sig # <<HMAC(tok.alg, tok.payload, secret)>>
        THEN [claims |-> c, valid |-> FALSE, err |-> ErrTokenSignatureInvalid]
        ELSE [claims |-> c, valid |-> TRUE, err |-> nil]

\* A parser whose keyFunc accepts every signing method, "none" included.
ParseAnyMethod(tok, secret, now) ==
    LET c == Unmarshal(tok.payload)
    IN  IF tok.kind # "jwt"
        THEN [claims |-> c, valid |-> FALSE, err |-> ErrTokenMalformed]
        ELSE IF tok.sig # IF tok.alg = "none" THEN <<>>
                          ELSE <<HMAC(tok.alg, tok.payload, secret)>>
        THEN [claims |-> c, valid |-> FALSE, err |-> ErrTokenSignatureInvalid]
        ELSE IF c.ExpiresAt # <<>> /\ ~(now < DateTime(c.ExpiresAt))
        THEN [claims |-> c, valid |-> FALSE,
              err |-> Errorf("token has invalid claims", ErrTokenExpired)]
        ELSE [claims |-> c, valid |-> TRUE, err |-> nil]

\* A parser for which a token expires only after the time of its exp.
ParseExpiresAfter(tok, secret, now) ==
    LET c == Unmarshal(tok.payload)
    IN  IF tok.kind # "jwt"
        THEN [claims |-> c, valid |-> FALSE, err |-> ErrTokenMalformed]
        ELSE IF tok.alg \notin HMACMethods
        THEN [claims |-> c, valid |-> FALSE, err |-> ErrTokenUnverifiable]
        ELSE IF tok.sig # <<HMAC(tok.alg, tok.payload, secret)>>
        THEN [claims |-> c, valid |-> FALSE, err |-> ErrTokenSignatureInvalid]
        ELSE IF c.ExpiresAt # <<>> /\ DateTime(c.ExpiresAt) < now
        THEN [claims |-> c, valid |-> FALSE,
              err |-> Errorf("token has invalid claims", ErrTokenExpired)]
        ELSE [claims |-> c, valid |-> TRUE, err |-> nil]

\* jwt.ParseWithClaims(tokenString, &Claims{}, keyFunc) of jwt/v5, with
\* ValidateToken's keyFunc: the segments are decoded, keyFunc gives the key
\* or refuses the method, the signature is verified, and then the registered
\* claims are validated (a token is expired unless now is before exp).
ParseWithClaims(tok, secret, now) ==
    LET c == Unmarshal(tok.payload)
    IN  IF tok.kind # "jwt"
        THEN [claims |-> c, valid |-> FALSE, err |-> ErrTokenMalformed]
        ELSE IF tok.alg \notin HMACMethods
        THEN [claims |-> c, valid |-> FALSE, err |-> ErrTokenUnverifiable]
        ELSE IF tok.sig # <<HMAC(tok.alg, tok.payload, secret)>>
        THEN [claims |-> c, valid |-> FALSE, err |-> ErrTokenSignatureInvalid]
        ELSE IF c.ExpiresAt # <<>> /\ ~(now < DateTime(c.ExpiresAt))
        THEN [claims |-> c, valid |-> FALSE,
              err |-> Errorf("token has invalid claims", ErrTokenExpired)]
        ELSE [claims |-> c, valid |-> TRUE, err |-> nil]

\* A ValidateToken that hands the empty string to the parser.
ValidateTokenParsesEmpty(tok, secret, now) ==
    LET r == ParseWithClaims(tok, secret, now)
    IN  IF r.err # nil
        THEN IF ErrorsIs(r.err, ErrTokenExpired)
             THEN [claims |-> <<>>, err |-> ErrExpiredToken]
             ELSE IF ErrorsIs(r.err, ErrTokenMalformed)
             THEN [claims |-> <<>>, err |-> ErrMalformedToken]
             ELSE [claims |-> <<>>, err |-> ErrInvalidToken]
        ELSE IF ~r.valid THEN [claims |-> <<>>, err |-> ErrInvalidToken]
        ELSE IF IsExpired(r.claims, now)
        THEN [claims |-> <<>>, err |-> ErrExpiredToken]
        ELSE [claims |-> <<r.claims>>, err |-> nil]

\* ValidateToken(tokenString, secret), with now the reading of time.Now():
\* the claims it returns (<<>> is nil) and the error.
ValidateToken(tok, secret, now) ==
    LET r == ParseWithClaims(tok, secret, now)
    IN  IF tok = EmptyString THEN [claims |-> <<>>, err |-> ErrInvalidToken]
        ELSE IF r.err # nil
        THEN IF ErrorsIs(r.err, ErrTokenExpired)
             THEN [claims |-> <<>>, err |-> ErrExpiredToken]
             ELSE IF ErrorsIs(r.err, ErrTokenMalformed)
             THEN [claims |-> <<>>, err |-> ErrMalformedToken]
             ELSE [claims |-> <<>>, err |-> ErrInvalidToken]
        ELSE IF ~r.valid THEN [claims |-> <<>>, err |-> ErrInvalidToken]
        ELSE IF IsExpired(r.claims, now)
        THEN [claims |-> <<>>, err |-> ErrExpiredToken]
        ELSE [claims |-> <<r.claims>>, err |-> nil]

NoIssue == [userID |-> "", username |-> "", secret |-> "", ttl |-> 0, at |-> 0]
NoResult == [token |-> EmptyString, secret |-> "", at |-> 0, claims |-> <<>>,
             err |-> nil]

\* The token strings a caller of ValidateToken may make up, from nothing or
\* from the token tok it has seen: "", a string that is no token, a token
\* with no expiry signed with a secret, and tok with its header set to
\* "none" and no signature, with another user_id or with no expiry under its
\* old signature, or signed again with a secret.
MadeUp(tok) ==
    {EmptyString, Garbage}
      \cup {SignedString("HS256",
                         [NewClaims(u, "", 0, 0) EXCEPT !.ExpiresAt = <<>>], s) :
               u \in UserIDs, s \in Secrets}
      \cup IF tok.kind # "jwt" THEN {}
           ELSE {[tok EXCEPT !.alg = "none", !.sig = <<>>],
                 [tok EXCEPT !.payload.exp = <<>>]}
                  \cup {[tok EXCEPT !.payload.user_id = u] : u \in UserIDs}
                  \cup {SignedString(a, Unmarshal(tok.payload), s) :
                           a \in {"HS512", "RS256", "none"}, s \in Secrets}

\* ---------------------------------------------------------------- adapters
\* A string is the sequence of its characters.
HasPrefix(str, prefix) ==
    Len(prefix) <= Len(str) /\ SubSeq(str, 1, Len(prefix)) = prefix

HasSuffix(str, suffix) ==
    /\ Len(suffix) <= Len(str)
    /\ SubSeq(str, Len(str) - Len(suffix) + 1, Len(str)) = suffix

TrimSuffix(str, suffix) ==
    IF HasSuffix(str, suffix) THEN SubSeq(str, 1, Len(str) - Len(suffix)) ELSE str

\* config.SkipPaths: "/h" and "/p/*"
SkipPaths == << <<"/", "h">>, <<"/", "p", "/", "*">> >>
\* c.Request.URL.Path: "/h", "/p/x", "/px", "/x"
Paths ==
    { <<"/", "h">>, <<"/", "p", "/", "x">>, <<"/", "p", "x">>, <<"/", "x">> }
\* What an Authorization header may begin with; "" stands for no header.
Schemes == {"", "Bearer ", "Basic "}
Frameworks == {"gin", "gozero"}
StatusOK == 200
StatusUnauthorized == 401

\* The loop over config.SkipPaths: whether it ends with the call of next.
Skips(skipPaths, currentPath) ==
    \E i \in 1..Len(skipPaths) :
       \/ skipPaths[i] = currentPath
       \/ /\ HasSuffix(skipPaths[i], <<"/", "*">>)
          /\ HasPrefix(currentPath, TrimSuffix(skipPaths[i], <<"/", "*">>))

\* The path is one of the skip paths, or lies under the directory of one that
\* is a "path/*" (it is that directory, or goes on with "/" after it).
UnderSkipPath(skipPaths, currentPath) ==
    \E i \in 1..Len(skipPaths) :
       \/ skipPaths[i] = currentPath
       \/ /\ HasSuffix(skipPaths[i], <<"/", "*">>)
          /\ \/ currentPath = TrimSuffix(skipPaths[i], <<"/", "*">>)
             \/ HasPrefix(currentPath, TrimSuffix(skipPaths[i], <<"*">>))

\* The handler of either AuthMiddleware, for a request with the path and the
\* Authorization header scheme followed by tok (no header when scheme is ""),
\* at the time now: the status written, whether next ran, and the user id
\* and claims put in the context (<<>> when none is).
AuthMiddleware(skipPaths, secret, currentPath, scheme, tok, now) ==
    LET r == ValidateToken(tok, secret, now)
        refused == [status |-> StatusUnauthorized, next |-> FALSE,
                    userID |-> <<>>, claims |-> <<>>]
    IN  IF Skips(skipPaths, currentPath)
        THEN [status |-> StatusOK, next |-> TRUE, userID |-> <<>>, claims |-> <<>>]
        ELSE IF scheme = "" THEN refused
        ELSE IF scheme # "Bearer " THEN refused
        ELSE IF tok = EmptyString THEN refused
        ELSE IF r.err # nil THEN refused
        ELSE [status |-> StatusOK, next |-> TRUE,
              userID |-> <<r.claims[1].UserID>>, claims |-> r.claims]

NoServed == [framework |-> "", path |-> <<>>, scheme |-> "", token |-> EmptyString,
             secret |-> "", at |-> 0, status |-> 0, next |-> FALSE,
             userID |-> <<>>, claims |-> <<>>]

Init ==
    /\ store = [k \in Keys |-> Absent]
    /\ randOK \in BOOLEAN
    /\ pc = [c \in Callers |-> "idle"]
    /\ op = [c \in Callers |-> ""]
    /\ key = [c \in Callers |-> ""]
    /\ options = [c \in Callers |-> NoOptions]
    /\ deadline = [c \in Callers |-> NoDeadline]
    /\ retries = [c \in Callers |-> 0]
    /\ lastErr = [c \in Callers |-> nil]
    /\ waitEnd = [c \in Callers |-> 0]
    /\ value = [c \in Callers |-> NoValue]
    /\ reply = [c \in Callers |-> FALSE]
    /\ attempts = [c \in Callers |-> 0]
    /\ handle = [c \in Callers |-> NoLock]
    /\ wlLock = [c \in Callers |-> NoLock]
    /\ ret = NoReturn
    /\ locked = FALSE
    /\ clock = 0
    /\ token = EmptyString
    /\ issue = NoIssue
    /\ validated = NoResult
    /\ served = NoServed

\* ------------------------------------------------------------- the clock
\* One tick less on a timer that runs.
Less(t) == IF t > 0 THEN t - 1 ELSE t

\* One tick passes.  A caller blocked in Lock's second select leaves it when
\* the first of its two channels is ready: no time passes over that.
Tick ==
    /\ \A c \in Callers : pc[c] = "wait" => deadline[c] > 0 /\ waitEnd[c] > 0
    /\ store' = Expired(store)
    /\ deadline' = [c \in Callers |-> Less(deadline[c])]
    /\ waitEnd' = [c \in Callers |-> Less(waitEnd[c])]
    /\ Running
    /\ UNCHANGED <<randOK, authVars, pc, op, key, options, retries, lastErr, value, reply,
                   attempts, handle, wlLock>>

\* ------------------------------------------------- TryLock, Lock, WithLock
\* A TryLock that reports an error of SetNX as contention.
TryLockSwallows(k, v, ttl, result, err) ==
    IF err # nil \/ ~result
    THEN [lock |-> NoLock, err |-> ErrLockNotAcquired]
    ELSE [lock |-> [key |-> k, value |-> v, ttl |-> ttl], err |-> nil]

\* What TryLock hands back once SetNX ended with (result, err).
TryLockResult(k, v, ttl, result, err) ==
    IF err # nil
    THEN [lock |-> NoLock, err |-> Errorf("failed to acquire lock", err)]
    ELSE IF ~result
    THEN [lock |-> NoLock, err |-> ErrLockNotAcquired]
    ELSE [lock |-> [key |-> k, value |-> v, ttl |-> ttl], err |-> nil]

\* A test that lets one more retry through.
RetriesExceededLate(n, maxRetries) == n > maxRetries + 1

\* retries > options.MaxRetries
RetriesExceeded(n, maxRetries) == n > maxRetries

\* An error of the second select that wraps lastErr.
RetryTimeoutOfLast(last, ctxErr) ==
    Errorf("lock acquisition timeout during retry", last)

\* The error of Lock's second select, taken when lockCtx is done.
RetryTimeoutError(last, ctxErr) ==
    Errorf("lock acquisition timeout during retry", ctxErr)

\* The error of Lock's first select, taken when lockCtx is done.
TimeoutError(last) ==
    IF last # nil
    THEN Errorf("lock acquisition timeout", last)
    ELSE Errorf("lock acquisition timeout", DeadlineExceeded)

\* The acquisition of caller c ends with (lock, err): TryLock and Lock return
\* them to the caller; WithLock returns err, or goes on to run fn with lock.
Returns(c, name, lock, err) ==
    /\ key' = [key EXCEPT ![c] = ""]
    /\ options' = [options EXCEPT ![c] = NoOptions]
    /\ deadline' = [deadline EXCEPT ![c] = NoDeadline]
    /\ retries' = [retries EXCEPT ![c] = 0]
    /\ lastErr' = [lastErr EXCEPT ![c] = nil]
    /\ waitEnd' = [waitEnd EXCEPT ![c] = 0]
    /\ value' = [value EXCEPT ![c] = NoValue]
    /\ reply' = [reply EXCEPT ![c] = FALSE]
    /\ attempts' = [attempts EXCEPT ![c] = 0]
    /\ IF err = nil /\ name = "WithLock"
       THEN /\ pc' = [pc EXCEPT ![c] = "fn"]
            /\ op' = [op EXCEPT ![c] = name]
            /\ wlLock' = [wlLock EXCEPT ![c] = lock]
            /\ handle' = [handle EXCEPT ![c] = NoLock]
            /\ Running
       ELSE /\ pc' = [pc EXCEPT ![c] = "idle"]
            /\ op' = [op EXCEPT ![c] = ""]
            /\ handle' = [handle EXCEPT ![c] = lock]
            /\ Return(c, name, err)
            /\ UNCHANGED wlLock

\* A loop head with no first select: TryLock is called whatever lockCtx is.
LoopHeadUnchecked(c, name, k, o, d, n, last, a) ==
    /\ pc' = [pc EXCEPT ![c] = "call"]
    /\ op' = [op EXCEPT ![c] = name]
    /\ key' = [key EXCEPT ![c] = k]
    /\ options' = [options EXCEPT ![c] = o]
    /\ deadline' = [deadline EXCEPT ![c] = d]
    /\ retries' = [retries EXCEPT ![c] = n]
    /\ lastErr' = [lastErr EXCEPT ![c] = last]
    /\ attempts' = [attempts EXCEPT ![c] = a + 1]
    /\ waitEnd' = [waitEnd EXCEPT ![c] = 0]
    /\ handle' = [handle EXCEPT ![c] = NoLock]
    /\ Running
    /\ UNCHANGED <<value, reply, wlLock>>

\* The head of Lock's loop with the locals given: the first select, taken
\* when lockCtx is done, else the call of TryLock (SetNX is sent).
LoopHead(c, name, k, o, d, n, last, a) ==
    IF d <= 0
    THEN Returns(c, name, NoLock, TimeoutError(last))
    ELSE /\ pc' = [pc EXCEPT ![c] = "call"]
         /\ op' = [op EXCEPT ![c] = name]
         /\ key' = [key EXCEPT ![c] = k]
         /\ options' = [options EXCEPT ![c] = o]
         /\ deadline' = [deadline EXCEPT ![c] = d]
         /\ retries' = [retries EXCEPT ![c] = n]
         /\ lastErr' = [lastErr EXCEPT ![c] = last]
         /\ attempts' = [attempts EXCEPT ![c] = a + 1]
         /\ waitEnd' = [waitEnd EXCEPT ![c] = 0]
         /\ handle' = [handle EXCEPT ![c] = NoLock]
         /\ Running
         /\ UNCHANGED <<value, reply, wlLock>>

\* time.After(d): the delay before the channel is ready; a duration that is
\* not positive has elapsed as soon as the timer is made.
After(d) == IF d < 0 THEN 0 ELSE d

\* Lock's loop body after TryLock returned r.
LockAfterTry(c, r) ==
    IF r.err = nil
    THEN Returns(c, op[c], r.lock, nil)
    ELSE IF ~ErrorsIs(r.err, ErrLockNotAcquired)
    THEN Returns(c, op[c], NoLock, r.err)
    ELSE IF RetriesExceeded(retries[c] + 1, options[c].MaxRetries)
    THEN Returns(c, op[c], NoLock,
                 Errorf("max retries exceeded", ErrLockNotAcquired))
    ELSE /\ lastErr' = [lastErr EXCEPT ![c] = r.err]
         /\ retries' = [retries EXCEPT ![c] = retries[c] + 1]
         /\ waitEnd' = [waitEnd EXCEPT ![c] = After(options[c].RetryDelay)]
         /\ pc' = [pc EXCEPT ![c] = "wait"]
         /\ value' = [value EXCEPT ![c] = NoValue]
         /\ reply' = [reply EXCEPT ![c] = FALSE]
         /\ Running
         /\ UNCHANGED <<op, key, options, deadline, attempts, handle, wlLock>>

\* SetNX ended with (result, err): TryLock returns, to its caller or to Lock.
TryLockReturns(c, result, err) ==
    LET r == TryLockResult(key[c], value[c], options[c].TTL, result, err)
    IN  IF op[c] = "TryLock"
        THEN Returns(c, op[c], r.lock, r.err)
        ELSE LockAfterTry(c, r)

\* TryLock(ctx, key, ttl) is called, under a context with no deadline.
TryLock(c, k, ttl) ==
    /\ pc[c] = "idle"
    /\ pc' = [pc EXCEPT ![c] = "call"]
    /\ op' = [op EXCEPT ![c] = "TryLock"]
    /\ key' = [key EXCEPT ![c] = k]
    /\ options' = [options EXCEPT ![c] = [NoOptions EXCEPT !.TTL = ttl]]
    /\ handle' = [handle EXCEPT ![c] = NoLock]
    /\ Running
    /\ UNCHANGED <<store, randOK, authVars, deadline, retries, lastErr, waitEnd, value, reply,
                   attempts, wlLock>>

\* Lock(ctx, key, opts) is called: lockCtx is made, retries = 0, lastErr = nil,
\* and the loop is entered.
Lock(c, k, o) ==
    /\ pc[c] = "idle"
    /\ LoopHead(c, "Lock", k, o, o.LockTimeout, 0, nil, 0)
    /\ UNCHANGED <<store, randOK, authVars>>

\* WithLock(ctx, key, fn, opts) is called: it calls Lock.
WithLock(c, k, o) ==
    /\ pc[c] = "idle"
    /\ LoopHead(c, "WithLock", k, o, o.LockTimeout, 0, nil, 0)
    /\ UNCHANGED <<store, randOK, authVars>>

\* The store runs the SetNX in flight, with the value TryLock generated for it.
StoreSetNX(c) ==
    /\ pc[c] = "call"
    /\ \E nano \in UnixNanos :
          LET v == generateLockValue(randOK, nano)
              r == SetNX(store, key[c], v, options[c].TTL)
          IN  /\ store' = IF r.reply THEN [r.store EXCEPT ![key[c]].by = c]
                                     ELSE r.store
              /\ reply' = [reply EXCEPT ![c] = r.reply]
              /\ value' = [value EXCEPT ![c] = IF r.reply THEN v ELSE NoValue]
    /\ pc' = [pc EXCEPT ![c] = "resp"]
    /\ Running
    /\ UNCHANGED <<randOK, authVars, op, key, options, deadline, retries, lastErr, waitEnd,
                   attempts, handle, wlLock>>

\* lockCtx.Done() is closed
Done(c) == deadline[c] = 0

\* SetNX fails before it is sent to the store: a store error, or lockCtx is
\* done when a connection is asked for (the pool's waitTurn returns ctx.Err()).
CallFails(c) ==
    /\ pc[c] = "call"
    /\ \E err \in {StoreError} \cup (IF Done(c) THEN {DeadlineExceeded} ELSE {}) :
          TryLockReturns(c, FALSE, err)
    /\ UNCHANGED <<store, randOK, authVars>>

\* A client that gives up the read of the reply when lockCtx is done.
ResponseCancelled(c) ==
    /\ pc[c] = "resp"
    /\ \E err \in (IF Done(c) THEN {DeadlineExceeded} ELSE {nil, StoreError}) :
          TryLockReturns(c, reply[c], err)
    /\ UNCHANGED <<store, randOK, authVars>>

\* SetNX ends after the store ran it: with the store's reply, or with a store
\* error when the reply is lost (the read ends at the client's ReadTimeout).
\* The client of New(cfg) leaves ContextTimeoutEnabled unset, so the command
\* is written and its reply is read under context.Background(): lockCtx
\* being done does not end a command that was sent.
Response(c) ==
    /\ pc[c] = "resp"
    /\ \E err \in {nil, StoreError} : TryLockReturns(c, reply[c], err)
    /\ UNCHANGED <<store, randOK, authVars>>

\* Lock's second select: lockCtx.Done() is the first to be ready.
WaitDone(c) ==
    /\ pc[c] = "wait"
    /\ Done(c)
    /\ Returns(c, op[c], NoLock, RetryTimeoutError(lastErr[c], DeadlineExceeded))
    /\ UNCHANGED <<store, randOK, authVars>>

\* Lock's second select: time.After(options.RetryDelay) is the first to be
\* ready, and the loop goes round.
WaitTimer(c) ==
    /\ pc[c] = "wait"
    /\ waitEnd[c] = 0
    /\ LoopHead(c, op[c], key[c], options[c], deadline[c], retries[c], lastErr[c],
                attempts[c])
    /\ UNCHANGED <<store, randOK, authVars>>

\* ------------------------------------------------------- Unlock, Extend
\* How a call of a script ends: "ok" the store ran it and the reply was read,
\* "lost" the store ran it and the reply was not read, "fail" it never ran.
Outcomes == {"ok", "lost", "fail"}

\* lock.Unlock(ctx): the store after it and the error it returns.
UnlockOutcome(st, lock, outcome) ==
    LET r == UnlockScript(st, lock.key, lock.value)
    IN  IF outcome = "fail"
        THEN [store |-> st, err |-> Errorf("failed to release lock", StoreError)]
        ELSE IF outcome = "lost"
        THEN [store |-> r.store, err |-> Errorf("failed to release lock", StoreError)]
        ELSE [store |-> r.store,
              err |-> IF r.reply = 0 THEN ErrLockNotOwned ELSE nil]

\* lock.Extend(ctx, ttl): the store after it, the error it returns, lock.ttl.
ExtendOutcome(st, lock, ttl, outcome) ==
    LET r == ExtendScript(st, lock.key, lock.value, Seconds(ttl))
    IN  IF outcome = "fail"
        THEN [store |-> st, err |-> Errorf("failed to extend lock", StoreError),
              ttl |-> lock.ttl]
        ELSE IF outcome = "lost"
        THEN [store |-> r.store, err |-> Errorf("failed to extend lock", StoreError),
              ttl |-> lock.ttl]
        ELSE IF r.reply = 0
        THEN [store |-> r.store, err |-> ErrLockNotOwned, ttl |-> lock.ttl]
        ELSE [store |-> r.store, err |-> nil, ttl |-> ttl]

\* redis.Nil
RedisNil == <<"redis: nil">>

\* GET key: the value, or redis.Nil when the key does not exist.
RedisGet(st, k) ==
    IF st[k] = Absent THEN [value |-> NoValue, err |-> RedisNil]
    ELSE [value |-> st[k].val, err |-> nil]

\* An IsLocked that returns redis.Nil as it returns any other error.
IsLockedNilIsError(st, lock, outcome) ==
    LET r == RedisGet(st, lock.key)
    IN  IF outcome # "ok" THEN [locked |-> FALSE, err |-> StoreError]
        ELSE IF r.err # nil THEN [locked |-> FALSE, err |-> r.err]
        ELSE [locked |-> r.value = lock.value, err |-> nil]

\* lock.IsLocked(ctx): the bool and the error it returns.
IsLockedResult(st, lock, outcome) ==
    LET r == RedisGet(st, lock.key)
    IN  IF outcome # "ok" THEN [locked |-> FALSE, err |-> StoreError]
        ELSE IF r.err # nil
        THEN IF ErrorsIs(r.err, RedisNil) THEN [locked |-> FALSE, err |-> nil]
             ELSE [locked |-> FALSE, err |-> r.err]
        ELSE [locked |-> r.value = lock.value, err |-> nil]

\* lock.GetTTL(ctx)
GetTTL(st, lock) == RedisTTL(st, lock.key)

\* A caller calls Unlock on the lock it holds.
Unlock(c) ==
    /\ pc[c] = "idle"
    /\ handle[c] # NoLock
    /\ \E outcome \in Outcomes :
          LET r == UnlockOutcome(store, handle[c], outcome)
          IN  /\ store' = r.store
              /\ Return(c, "Unlock", r.err)
    /\ UNCHANGED <<randOK, authVars, pc, lockVars, handle, wlLock>>

\* A caller calls Extend on the lock it holds.
Extend(c, ttl) ==
    /\ pc[c] = "idle"
    /\ handle[c] # NoLock
    /\ \E outcome \in Outcomes :
          LET r == ExtendOutcome(store, handle[c], ttl, outcome)
          IN  /\ store' = r.store
              /\ Return(c, "Extend", r.err)
              /\ handle' = [handle EXCEPT ![c].ttl = r.ttl]
    /\ UNCHANGED <<randOK, authVars, pc, lockVars, wlLock>>

\* A caller calls IsLocked on the lock it holds.
IsLocked(c) ==
    /\ pc[c] = "idle"
    /\ handle[c] # NoLock
    /\ \E outcome \in {"ok", "fail"} :
          LET r == IsLockedResult(store, handle[c], outcome)
          IN  /\ ret' = [caller |-> c, op |-> "IsLocked", err |-> r.err]
              /\ locked' = r.locked
    /\ UNCHANGED <<store, randOK, authVars, pc, lockVars, handle, wlLock>>

\* ------------------------------------------- Client.Set, Delete, Expire
\* A value an application stores with Client.Set.
AppValue == [kind |-> "app", n |-> 0]

\* SET key value [EX ttl]: a zero expiration means no expiry.
RedisSet(st, k, v, ttl) ==
    [st EXCEPT ![k] = [val |-> v, exp |-> IF ttl = 0 THEN NoExpiry ELSE ttl,
                       by |-> ""]]

\* DEL key
RedisDel(st, k) == [st EXCEPT ![k] = Absent]

\* go-redis formatSec: the seconds of an expiration, a positive one below a
\* second being taken for one second.
FormatSec(ttl) ==
    IF ttl > 0 /\ ttl < TicksPerSecond THEN 1 ELSE ttl \div TicksPerSecond

\* c.Set(ctx, key, value, ttl): the command runs or the call fails.
ClientSet(c, k, v, ttl) ==
    /\ pc[c] = "idle"
    /\ \/ store' = RedisSet(store, k, v, ttl) /\ Return(c, "Set", nil)
       \/ store' = store /\ Return(c, "Set", StoreError)
    /\ UNCHANGED <<randOK, authVars, pc, lockVars, handle, wlLock>>

\* c.Delete(ctx, key)
ClientDelete(c, k) ==
    /\ pc[c] = "idle"
    /\ \/ store' = RedisDel(store, k) /\ Return(c, "Delete", nil)
       \/ store' = store /\ Return(c, "Delete", StoreError)
    /\ UNCHANGED <<randOK, authVars, pc, lockVars, handle, wlLock>>

\* c.Expire(ctx, key, ttl): EXPIRE does nothing to a key that does not exist.
ClientExpire(c, k, ttl) ==
    /\ pc[c] = "idle"
    /\ \/ /\ store' = IF store[k] = Absent THEN store
                      ELSE RedisExpire(store, k, FormatSec(ttl))
          /\ Return(c, "Expire", nil)
       \/ store' = store /\ Return(c, "Expire", StoreError)
    /\ UNCHANGED <<randOK, authVars, pc, lockVars, handle, wlLock>>

\* ------------------------------------------------------- WithLock's fn
\* What fn() ends with: nil, an error, or a panic.
FnResults == {nil, <<"fn failed">>, <<"panic">>}

\* A WithLock that returns the error of the deferred Unlock when there is one.
WithLockMasks(fnErr, unlockErr) == IF unlockErr # nil THEN unlockErr ELSE fnErr

\* What WithLock ends with: what fn() ended with; unlockErr is not returned.
WithLockResult(fnErr, unlockErr) == fnErr

\* fn() ends inside WithLock: the deferred lock.Unlock(ctx) runs, its error
\* is dropped, and WithLock ends with what fn ended with.
FnEnds(c) ==
    /\ pc[c] = "fn"
    /\ \E outcome \in Outcomes, e \in FnResults :
          LET r == UnlockOutcome(store, wlLock[c], outcome)
          IN  /\ store' = r.store
              /\ Return(c, "WithLock", WithLockResult(e, r.err))
    /\ wlLock' = [wlLock EXCEPT ![c] = NoLock]
    /\ pc' = [pc EXCEPT ![c] = "idle"]
    /\ op' = [op EXCEPT ![c] = ""]
    /\ UNCHANGED <<randOK, authVars, key, options, deadline, retries, lastErr, waitEnd, value,
                   reply, attempts, handle>>

\* ----------------------------------------------------- the specifications
\* What a call in progress does next, and the store and the clock with it.
Step ==
    \/ Tick
    \/ \E c \in Callers : StoreSetNX(c)
    \/ \E c \in Callers : CallFails(c)
    \/ \E c \in Callers : Response(c)
    \/ \E c \in Callers : WaitDone(c)
    \/ \E c \in Callers : WaitTimer(c)

\* Every caller calls everything; Lock and WithLock with two LockOptions.
Next ==
    \/ Step
    \/ \E c \in Callers, k \in Keys, ttl \in TTLs : TryLock(c, k, ttl)
    \/ \E c \in Callers, k \in Keys, o \in {Retrying, Impatient} : Lock(c, k, o)
    \/ \E c \in Callers, k \in Keys, o \in {Retrying, Impatient} : WithLock(c, k, o)
    \/ \E c \in Callers : Unlock(c)
    \/ \E c \in Callers, ttl \in TTLs : Extend(c, ttl)
    \/ \E c \in Callers : IsLocked(c)
    \/ \E c \in Callers : FnEnds(c)

Spec == Init /\ [][Next]_vars

\* One caller calls Lock with every LockOptions, and Unlock; the other one
\* contends for the key with TryLock and Unlock.
NextLock ==
    \/ Step
    \/ \E k \in Keys, o \in LockOptions : Lock("c1", k, o)
    \/ \E k \in Keys, ttl \in TTLs : TryLock("c2", k, ttl)
    \/ \E c \in Callers : Unlock(c)

SpecLock == Init /\ [][NextLock]_vars

\* LockOptions with fields that are zero or negative as well.
AnyOptions ==
    [TTL : {1}, RetryDelay : {0 - 1, 0, 1}, MaxRetries : {0 - 1, 0, MaxRetriesOpt},
     LockTimeout : {0 - 1, 0, MaxDelay}]

\* Sustained contention: one caller calls Lock with any options, again and
\* again; the other one takes the key with no expiry and never releases it.
NextContend ==
    \/ Step
    \/ \E k \in Keys, o \in AnyOptions : Lock("c1", k, o)
    \/ \E k \in Keys : TryLock("c2", k, 0)

\* The store ends every command it is sent (with a reply, or with an error at
\* the client's timeouts), the runtime wakes a goroutine whose select has a
\* ready channel, and time passes.
Progress ==
    /\ WF_vars(Tick)
    /\ \A c \in Callers :
          /\ WF_vars(StoreSetNX(c) \/ CallFails(c))
          /\ WF_vars(Response(c))
          /\ WF_vars(WaitDone(c) \/ WaitTimer(c))

SpecContend == Init /\ [][NextContend]_vars /\ Progress

\* Caller c is at work under the record of key k: its SetNX wrote the record
\* and it waits for the reply, or runs fn under it, or has the lock of it.
Under(c, k) ==
    \/ pc[c] = "resp" /\ key[c] = k /\ value[c] = store[k].val
    \/ pc[c] = "fn" /\ wlLock[c].key = k /\ wlLock[c].value = store[k].val
    \/ handle[c].key = k /\ handle[c].value = store[k].val

\* One tick passes, and no lease expires under the caller that took it.
TickInLease ==
    /\ \A k \in Keys, c \in Callers :
          store[k].exp = 1 /\ store[k].by = c => ~Under(c, k)
    /\ Tick

\* One caller runs critical sections under WithLock; the other one takes the
\* key with TryLock and releases it with Unlock, which it may call again.
\* Leases are long enough for their holders.
NextSection ==
    \/ TickInLease
    \/ \E c \in Callers : StoreSetNX(c)
    \/ \E c \in Callers : CallFails(c)
    \/ \E c \in Callers : Response(c)
    \/ \E c \in Callers : WaitDone(c)
    \/ \E c \in Callers : WaitTimer(c)
    \/ \E k \in Keys : WithLock("c1", k, Retrying)
    \/ FnEnds("c1")
    \/ \E k \in Keys, ttl \in TTLs : TryLock("c2", k, ttl)
    \/ Unlock("c2")

SpecSection == Init /\ [][NextSection]_vars

\* The opts a caller passes to Lock and WithLock: one LockOptions, with
\* fields left unset (zero) and a LockTimeout that is negative as well.
Passed ==
    {<<o>> : o \in [TTL : {1}, RetryDelay : {0, 1}, MaxRetries : {0, MaxRetriesOpt},
                    LockTimeout : {0 - 1, 0, MaxDelay}]}

\* One caller calls Lock and WithLock with the opts it passes; the other one
\* contends for the key with TryLock and Unlock.
NextOptions ==
    \/ Step
    \/ \E k \in Keys, opts \in Passed : Lock("c1", k, OptionsOf(opts))
    \/ \E k \in Keys, opts \in Passed : WithLock("c1", k, OptionsOf(opts))
    \/ FnEnds("c1")
    \/ \E k \in Keys, ttl \in TTLs : TryLock("c2", k, ttl)
    \/ Unlock("c2")

SpecOptions == Init /\ [][NextOptions]_vars

\* The callers take the key with TryLock, release and extend it, and use the
\* key-value operations of the same Client on it.
NextClient ==
    \/ Tick
    \/ \E c \in Callers : StoreSetNX(c)
    \/ \E c \in Callers : CallFails(c)
    \/ \E c \in Callers : Response(c)
    \/ \E c \in Callers, k \in Keys, ttl \in TTLs : TryLock(c, k, ttl)
    \/ \E c \in Callers : Unlock(c)
    \/ \E c \in Callers, ttl \in TTLs : Extend(c, ttl)
    \/ \E c \in Callers, k \in Keys, ttl \in TTLs : ClientSet(c, k, AppValue, ttl)
    \/ \E c \in Callers, k \in Keys : ClientDelete(c, k)
    \/ \E c \in Callers, k \in Keys, ttl \in TTLs : ClientExpire(c, k, ttl)

SpecClient == Init /\ [][NextClient]_vars

\* ------------------------------------------------------------ package auth
lockState == <<store, randOK, pc, lockVars, handle, wlLock, ret, locked>>

\* Time passes.
ClockTick ==
    /\ clock < MaxClock
    /\ clock' = clock + 1
    /\ UNCHANGED <<token, issue, validated, served, lockState>>

\* GenerateToken(userID, username, secret, ttl) is called.
IssueToken(userID, username, secret, ttl) ==
    /\ token' = GenerateToken(userID, username, secret, ttl, clock)
    /\ issue' = [userID |-> userID, username |-> username, secret |-> secret,
                 ttl |-> ttl, at |-> clock]
    /\ validated' = NoResult
    /\ served' = NoServed
    /\ UNCHANGED <<clock, lockState>>

\* A token string is made up.
MakeUpToken(t) ==
    /\ t # token
    /\ token' = t
    /\ issue' = NoIssue
    /\ validated' = NoResult
    /\ served' = NoServed
    /\ UNCHANGED <<clock, lockState>>

\* ValidateToken(token, secret) is called.
VerifyToken(secret) ==
    /\ LET r == ValidateToken(token, secret, clock)
       IN  validated' = [token |-> token, secret |-> secret, at |-> clock,
                      claims |-> r.claims, err |-> r.err]
    /\ UNCHANGED <<clock, token, issue, served, lockState>>

NextAuth ==
    \/ ClockTick
    \/ \E u \in UserIDs, n \in Usernames, s \in Secrets, ttl \in Durations :
          IssueToken(u, n, s, ttl)
    \/ \E t \in MadeUp(token) : MakeUpToken(t)
    \/ \E s \in Secrets : VerifyToken(s)

SpecAuth == Init /\ [][NextAuth]_vars

\* ---------------------------------------------------------------- adapters
\* A request comes to the AuthMiddleware of a framework, configured with
\* SkipPaths and a secret: when it has an Authorization header, the header
\* is the scheme followed by the token string generated or made up last (a
\* header with no scheme and no token is no header).
Serve(framework, secret, currentPath, scheme) ==
    /\ LET tok == IF scheme = "" THEN EmptyString ELSE token
           r == AuthMiddleware(SkipPaths, secret, currentPath, scheme, tok, clock)
       IN  served' = [framework |-> framework, path |-> currentPath,
                      scheme |-> scheme, token |-> tok, secret |-> secret,
                      at |-> clock, status |-> r.status, next |-> r.next,
                      userID |-> r.userID, claims |-> r.claims]
    /\ UNCHANGED <<clock, token, issue, validated, lockState>>

\* Tokens are issued with a secret for a user, with a ttl that is past or
\* not; a token that was issued is given up for a string that is no token or
\* for a token with the header "none"; requests are served as time passes.
NextHTTP ==
    \/ ClockTick
    \/ \E u \in UserIDs, s \in Secrets, ttl \in {0 - 1, MaxTTL} :
          IssueToken(u, "", s, ttl)
    \/ \E t \in {m \in MadeUp(token) : m.alg \in {"", "none"}} :
          issue # NoIssue /\ MakeUpToken(t)
    \/ \E f \in Frameworks, p \in Paths, h \in Schemes :
          Serve(f, "test-secret", p, h)

SpecHTTP == Init /\ [][NextHTTP]_vars

\* ------------------------------------------------------------ the claims
\* The locks a caller has in its hands.
HandlesOf(c) == {handle[c], wlLock[c]} \ {NoLock}

\* C1: for every key, at most one caller has a lock whose value is the value
\* the store holds for the key, and no two callers have locks for the same
\* key with the same value.
C1_OneValidOwner ==
    /\ \A k \in Keys :
          Cardinality({c \in Callers :
                         \E h \in HandlesOf(c) :
                            h.key = k /\ h.value = store[k].val}) <= 1
    /\ \A c, d \in Callers :
          c # d => \A h \in HandlesOf(c), g \in HandlesOf(d) :
                      h.key = g.key => h.value # g.value

\* C2 as stated: of two TryLock calls on a key that are in progress at the
\* same time, at most one returns a lock (the second of two returns in a row
\* is the return of a call that was in progress when the first one returned).
C2_OneOfOverlapping ==
    [][\A c, d \in Callers :
          /\ c # d
          /\ ret = [caller |-> d, op |-> "TryLock", err |-> nil]
          /\ ret' = [caller |-> c, op |-> "TryLock", err |-> nil]
          => handle'[c].key # handle[d].key]_vars

\* C2: the SetNX of a TryLock that finds a record for the key leaves the store
\* as it is, and the call then returns no lock: it returns ErrLockNotAcquired
\* when the store's reply is read, a wrapped store error when it is not; a
\* TryLock returns a lock only when its own SetNX found the key absent and
\* wrote the lock's value.  So of the calls in progress at the same time at
\* most one succeeds for as long as the winner's record stays in the store.
C2_SetIfAbsent ==
    [][\A c \in Callers :
          /\ (pc[c] = "call" /\ pc'[c] = "resp" /\ store[key[c]] # Absent
                 /\ StoreSetNX(c))
                => store' = store /\ ~reply'[c]
          /\ (pc[c] = "call" /\ pc'[c] = "resp" /\ store[key[c]] = Absent
                 /\ StoreSetNX(c))
                => reply'[c] /\ store'[key[c]].val = value'[c]
          /\ (pc[c] = "resp" /\ op[c] = "TryLock" /\ Response(c))
                => IF reply[c] /\ ret'.err = nil
                   THEN handle'[c] = [key |-> key[c], value |-> value[c],
                                      ttl |-> options[c].TTL]
                   ELSE /\ handle'[c] = NoLock
                        /\ IF reply[c] THEN ErrorsIs(ret'.err, StoreError)
                           ELSE \/ ret'.err = ErrLockNotAcquired
                                \/ ErrorsIs(ret'.err, StoreError)]_vars

\* Two TryLock calls on a key are in progress; the SetNX of one has written
\* the record, and the other one has just returned ErrLockNotAcquired.
C2_Witness ==
    \E c, d \in Callers :
       /\ c # d
       /\ pc[d] = "resp" /\ op[d] = "TryLock" /\ reply[d]
       /\ store[key[d]].val = value[d]
       /\ ret = [caller |-> c, op |-> "TryLock", err |-> ErrLockNotAcquired]

\* C3: Unlock never removes a record it does not own.  When the value the
\* store holds for the lock's key is not the lock's value, or the key is
\* absent, Unlock leaves the store as it is and returns ErrLockNotOwned (a
\* wrapped store error when the store's reply is not read); and an Unlock with
\* a stale lock never removes the record that another caller's SetNX wrote.
\* The same holds of the Unlock that WithLock defers.
C3_UnlockOwnOnly ==
    [][\A c \in Callers :
          /\ Unlock(c) /\ store[handle[c].key].val # handle[c].value
                => /\ store' = store
                   /\ \/ ret'.err = ErrLockNotOwned
                      \/ ErrorsIs(ret'.err, StoreError)
          /\ Unlock(c) /\ store[handle[c].key].by # c => store' = store
          /\ FnEnds(c) /\ store[wlLock[c].key].by # c => store' = store]_vars

\* C4: Unlock with a lock whose value is the value the store holds for the key
\* returns nil and the key is then absent (when the store's reply is not read
\* it returns a wrapped store error).  A SetNX that finds the key absent
\* writes the caller's record, so that the TryLock or Lock it belongs to
\* returns the lock from that attempt when the reply is read before lockCtx
\* is done.  A SetNX that finds a record does not succeed, and the Lock whose
\* retries are used up by that returns "max retries exceeded", an
\* ErrLockNotAcquired, and no lock.
C4_UnlockFrees ==
    [][\A c \in Callers :
          /\ (ret'.op = "Unlock" /\ ret'.caller = c /\ Unlock(c)
                 /\ store[handle[c].key].val = handle[c].value)
                => \/ ret'.err = nil /\ store'[handle[c].key] = Absent
                   \/ ErrorsIs(ret'.err, StoreError)
          /\ (pc[c] = "call" /\ pc'[c] = "resp" /\ StoreSetNX(c))
                => IF store[key[c]] = Absent
                   THEN reply'[c] /\ store'[key[c]].by = c
                   ELSE ~reply'[c]
          /\ (pc[c] = "resp" /\ reply[c] /\ op[c] \in {"TryLock", "Lock"}
                 /\ Response(c))
                => \/ /\ ret' = [caller |-> c, op |-> op[c], err |-> nil]
                      /\ handle'[c].key = key[c]
                      /\ handle'[c].value = value[c]
                   \/ ErrorsIs(ret'.err, StoreError)
                   \/ ErrorsIs(ret'.err, DeadlineExceeded)
          /\ (pc[c] = "resp" /\ ~reply[c] /\ op[c] = "Lock"
                 /\ retries[c] >= options[c].MaxRetries /\ Response(c))
                => /\ handle'[c] = NoLock
                   /\ \/ /\ ErrorsIs(ret'.err, ErrLockNotAcquired)
                         /\ ret'.err[1] = "max retries exceeded"
                      \/ ErrorsIs(ret'.err, StoreError)
                      \/ ErrorsIs(ret'.err, DeadlineExceeded)]_vars

\* The holder of the key has just unlocked it, with success, and the key is
\* absent, while the Lock of another caller, which found the key held, waits
\* to retry.
C4_Witness ==
    \E c, d \in Callers :
       /\ c # d
       /\ ret = [caller |-> d, op |-> "Unlock", err |-> nil]
       /\ store[handle[d].key] = Absent
       /\ pc[c] = "wait" /\ op[c] = "Lock" /\ key[c] = handle[d].key
       /\ retries[c] >= 1

\* C5: an Extend that returns nil, for whatever ttl, leaves the record of the
\* lock's key in the store, with the lock's value.
C5_ExtendKeeps ==
    [][\A c \in Callers, ttl \in TTLs :
          Extend(c, ttl) /\ ret'.err = nil
             => /\ store'[handle[c].key] # Absent
                /\ store'[handle[c].key].val = handle[c].value]_vars

\* C6: right after an Extend(ttl) that returns nil, for whatever ttl, GetTTL
\* is at least ttl.
C6_ExtendedTTL ==
    [][\A c \in Callers, ttl \in TTLs :
          Extend(c, ttl) /\ ret'.err = nil
             => GetTTL(store', handle'[c]) >= ttl]_vars

\* C7: Extend with a lock whose value is not the value the store holds for
\* the key (another caller's record, or no record) returns ErrLockNotOwned (a
\* wrapped store error when the store's reply is not read) and leaves the
\* store, with the key's value and expiry, and the lock's ttl as they are.
C7_ExtendNotOwned ==
    [][\A c \in Callers :
          (ret'.op = "Extend" /\ ret'.caller = c /\ handle[c] # NoLock
              /\ store[handle[c].key].val # handle[c].value
              /\ \E ttl \in TTLs : Extend(c, ttl))
             => /\ store' = store
                /\ handle' = handle
                /\ \/ ret'.err = ErrLockNotOwned
                   \/ ErrorsIs(ret'.err, StoreError)]_vars

\* Extend with a stale lock has just returned ErrLockNotOwned, and the key
\* holds the record of another caller, with an expiry.
C7_Witness ==
    \E c \in Callers :
       /\ ret = [caller |-> c, op |-> "Extend", err |-> ErrLockNotOwned]
       /\ store[handle[c].key] # Absent
       /\ store[handle[c].key].by # c
       /\ store[handle[c].key].exp # NoExpiry

\* C8 as stated: a Lock that returns "max retries exceeded" has made at most
\* options.MaxRetries calls of TryLock.
C8_AtMostMaxRetries ==
    [][\A c \in Callers :
          ret' = [caller |-> c, op |-> "Lock",
                  err |-> Errorf("max retries exceeded", ErrLockNotAcquired)]
             => attempts[c] <= options[c].MaxRetries]_vars

\* C8: a Lock makes at most options.MaxRetries + 1 calls of TryLock, the
\* first attempt and MaxRetries retries, and it has made that many when it
\* returns "max retries exceeded".
C8_AtMostOneMore ==
    [][\A c \in Callers :
          /\ attempts'[c] <= options'[c].MaxRetries + 1
          /\ ret' = [caller |-> c, op |-> "Lock",
                     err |-> Errorf("max retries exceeded", ErrLockNotAcquired)]
                => attempts[c] = options[c].MaxRetries + 1]_vars

\* A Lock with MaxRetries of one or more has made MaxRetries + 1 calls of
\* TryLock, and the last of them found the key held.
C8_Witness ==
    \E c \in Callers :
       /\ op[c] = "Lock" /\ pc[c] = "resp" /\ ~reply[c]
       /\ options[c].MaxRetries >= 1
       /\ attempts[c] = options[c].MaxRetries + 1

\* C9: an error that Lock returns when lockCtx is done does not match
\* ErrLockNotAcquired, and the only error of Lock that matches
\* ErrLockNotAcquired is "max retries exceeded".
C9_DistinctFailures ==
    [][\A c \in Callers :
          (ret'.caller = c /\ ret'.op = "Lock" /\ ret'.err # nil)
             => /\ Done(c) => ~ErrorsIs(ret'.err, ErrLockNotAcquired)
                /\ ErrorsIs(ret'.err, ErrLockNotAcquired)
                      => ret'.err = Errorf("max retries exceeded",
                                           ErrLockNotAcquired)]_vars

\* C10: a Lock with LockTimeout shorter than RetryDelay that waits to retry
\* has made one call of TryLock, and it leaves the wait only when lockCtx is
\* done, with RetryDelay not over and without another call of TryLock: it
\* returns "lock acquisition timeout during retry", which wraps the
\* context's error and does not match ErrLockNotAcquired.
C10_TimeoutMidWait ==
    [][\A c \in Callers :
          (/\ op[c] = "Lock" /\ pc[c] = "wait"
           /\ options[c].LockTimeout < options[c].RetryDelay)
             => /\ attempts[c] = 1
                /\ ~WaitTimer(c)
                /\ pc'[c] # "wait"
                      => /\ Done(c) /\ waitEnd[c] > 0
                         /\ pc'[c] = "idle" /\ handle'[c] = NoLock
                         /\ ret' = [caller |-> c, op |-> "Lock",
                                    err |-> Errorf("lock acquisition timeout during retry",
                                                   DeadlineExceeded)]
                         /\ ~ErrorsIs(ret'.err, ErrLockNotAcquired)]_vars

\* A Lock with LockTimeout shorter than RetryDelay waits to retry, lockCtx
\* is done, RetryDelay is not over, and the key is still held.
C10_Witness ==
    \E c \in Callers :
       /\ op[c] = "Lock" /\ pc[c] = "wait"
       /\ 0 < options[c].LockTimeout
       /\ options[c].LockTimeout < options[c].RetryDelay
       /\ Done(c) /\ waitEnd[c] > 0
       /\ store[key[c]] # Absent /\ store[key[c]].by # c

\* C11: a Lock with MaxRetries = 0 never waits to retry and makes one call of
\* TryLock; when that call finds the key held and the store's reply is read
\* before lockCtx is done, Lock returns "max retries exceeded", an
\* ErrLockNotAcquired, and no lock.
C11_NoRetryNoWait ==
    [][\A c \in Callers :
          /\ (op'[c] = "Lock" /\ options'[c].MaxRetries = 0)
                => pc'[c] # "wait" /\ attempts'[c] = 1
          /\ (/\ op[c] = "Lock" /\ options[c].MaxRetries = 0
              /\ Response(c) /\ ~reply[c])
             => /\ handle'[c] = NoLock
                /\ \/ ret' = [caller |-> c, op |-> "Lock",
                              err |-> Errorf("max retries exceeded",
                                             ErrLockNotAcquired)]
                   \/ ErrorsIs(ret'.err, StoreError)
                   \/ ErrorsIs(ret'.err, DeadlineExceeded)]_vars

\* The one call of TryLock of a Lock with MaxRetries = 0 found the key held
\* by another caller, and lockCtx is not done.
C11_Witness ==
    \E c \in Callers :
       /\ op[c] = "Lock" /\ pc[c] = "resp" /\ ~reply[c]
       /\ options[c].MaxRetries = 0
       /\ attempts[c] = 1 /\ deadline[c] > 0
       /\ store[key[c]] # Absent /\ store[key[c]].by # c

\* C12: when the SetNX of a TryLock inside Lock ends with an error (the
\* store's, or the context's), Lock returns in that step, with no lock and
\* with that error wrapped as "failed to acquire lock": it neither waits nor
\* calls TryLock again, whatever retries and time are left.
C12_StoreErrorAborts ==
    [][\A c \in Callers :
          (/\ op[c] = "Lock"
           /\ \/ CallFails(c)
              \/ /\ Response(c)
                 /\ ret'.err # nil
                 /\ ~ErrorsIs(ret'.err, ErrLockNotAcquired))
             => /\ pc'[c] = "idle" /\ handle'[c] = NoLock
                /\ ret'.caller = c /\ ret'.op = "Lock"
                /\ ret'.err \in {Errorf("failed to acquire lock", StoreError),
                                 Errorf("failed to acquire lock", DeadlineExceeded)}
          ]_vars

\* Lock has just returned a wrapped store error, with the key held by
\* another caller.
C12_Witness ==
    \E c \in Callers :
       /\ ret = [caller |-> c, op |-> "Lock",
                 err |-> Errorf("failed to acquire lock", StoreError)]
       /\ pc[c] = "idle" /\ handle[c] = NoLock
       /\ store["k1"] # Absent /\ store["k1"].by # c

\* C13: when fn() ends inside WithLock, WithLock ends with what fn() ended
\* with, and never with the error of the deferred Unlock (ErrLockNotOwned or
\* a wrapped store error), whatever the outcome of that Unlock.
C13_FnResultKept ==
    [][\A c \in Callers :
          FnEnds(c)
             => /\ ret'.caller = c /\ ret'.op = "WithLock"
                /\ ret'.err \in FnResults
                /\ ret'.err # ErrLockNotOwned
                /\ ~ErrorsIs(ret'.err, StoreError)]_vars

\* WithLock has just returned the error of fn() although the deferred Unlock
\* did not succeed: the key holds the record of another caller.
C13_Witness ==
    \E c \in Callers :
       /\ ret = [caller |-> c, op |-> "WithLock", err |-> <<"fn failed">>]
       /\ store["k1"] # Absent /\ store["k1"].by # c

C15_IsLockedReads ==
    [][\A c \in Callers :
          (ret'.op = "IsLocked" /\ ret'.caller = c /\ IsLocked(c))
             => /\ store' = store /\ handle' = handle
                /\ \/ /\ ret'.err = nil
                      /\ locked' <=> (store[handle[c].key].val = handle[c].value)
                   \/ ret'.err = StoreError /\ ~locked']_vars

\* IsLocked has just returned (false, nil) for a stale lock, and (true, nil)
\* is what it returns to the caller whose record the key holds.
C15_Witness ==
    \E c, d \in Callers :
       /\ c # d
       /\ ret = [caller |-> c, op |-> "IsLocked", err |-> nil] /\ ~locked
       /\ store[handle[c].key] # Absent
       /\ store[handle[c].key].val # handle[c].value
       /\ handle[d] # NoLock
       /\ IsLockedResult(store, handle[d], "ok") = [locked |-> TRUE, err |-> nil]

\* ------------------------------------------------------------ package auth
\* The latest ValidateToken call was given the token of the latest
\* GenerateToken call, as issued.
Validated == issue # NoIssue /\ validated # NoResult

\* C16: for every ttl > 0, a ttl shorter than one second included,
\* ValidateToken of the token GenerateToken issued, with the same secret and
\* at the instant of issuance, returns Claims with the UserID and Username
\* given to GenerateToken, and IsExpired() is false for them.
C16_RoundTrip ==
    (Validated /\ issue.ttl > 0 /\ validated.secret = issue.secret
               /\ validated.at = issue.at)
       => /\ validated.err = nil
          /\ validated.claims # <<>>
          /\ validated.claims[1].UserID = issue.userID
          /\ validated.claims[1].Username = issue.username
          /\ ~IsExpired(validated.claims[1], validated.at)

\* C17: GenerateToken succeeds for a ttl that is zero or negative, and
\* ValidateToken of the token it issued, with the same secret and at the
\* instant of issuance or later, returns ErrExpiredToken and nil claims.
C17_IssuedExpired ==
    /\ (issue # NoIssue /\ issue.ttl <= 0) => token.kind = "jwt"
    /\ (Validated /\ issue.ttl <= 0 /\ validated.secret = issue.secret)
          => validated.err = ErrExpiredToken /\ validated.claims = <<>>

C17_Witness ==
    /\ Validated /\ issue.ttl = 0 /\ validated.secret = issue.secret
    /\ validated.at = issue.at
    /\ validated.err = ErrExpiredToken

\* The latest ValidateToken call was given a token that carries a signature
\* made with another secret than the one the call was given.
WrongSecret ==
    /\ validated # NoResult
    /\ validated.token.kind = "jwt"
    /\ validated.token.sig # <<>>
    /\ validated.token.sig[1].key # validated.secret

\* C18: ValidateToken of a token with a secret other than the one the token
\* was signed with returns ErrInvalidToken and nil claims, whether the token
\* is expired or not.
C18_WrongSecretInvalid ==
    WrongSecret => validated.err = ErrInvalidToken /\ validated.claims = <<>>

C18_Witness ==
    /\ WrongSecret /\ issue # NoIssue
    /\ ~(validated.at < DateTime(validated.token.payload.exp))
    /\ validated.err = ErrInvalidToken

\* The signature of token t is the HMAC of its header and payload under
\* secret s, and its header names an HMAC method.
Verifies(t, s) ==
    /\ t.kind = "jwt"
    /\ t.alg \in HMACMethods
    /\ t.sig = <<HMAC(t.alg, t.payload, s)>>

\* C19: ValidateToken returns claims that are not nil only with a nil error,
\* for a token whose signature verifies under the given secret with an HMAC
\* method and that is not expired, and they are the claims of that token;
\* with every error, which is ErrInvalidToken, ErrMalformedToken or
\* ErrExpiredToken, the claims are nil.
C19_ClaimsOnlyVerified ==
    validated # NoResult
       => /\ validated.err \in {nil, ErrInvalidToken, ErrMalformedToken,
                                ErrExpiredToken}
          /\ validated.err # nil => validated.claims = <<>>
          /\ validated.claims # <<>>
                => /\ validated.err = nil
                   /\ Verifies(validated.token, validated.secret)
                   /\ validated.claims[1] = Unmarshal(validated.token.payload)
                   /\ \/ validated.token.payload.exp = <<>>
                      \/ validated.at < DateTime(validated.token.payload.exp)

C19_Witness ==
    /\ validated.claims # <<>>
    /\ issue # NoIssue
    /\ validated.at > issue.at

\* C20: for a token that is well formed and whose signature verifies,
\* ValidateToken returns ErrExpiredToken exactly when the token carries an
\* expiry at or before the time of the call (an expiry equal to that time
\* counts as expired); a token whose expiry is missing (nil, the zero value
\* of ExpiresAt) is accepted, and IsExpired() is false for its claims.
C20_ExpiredAtOrBefore ==
    (validated # NoResult /\ Verifies(validated.token, validated.secret))
       => LET exp == validated.token.payload.exp
          IN  /\ validated.err = ErrExpiredToken
                    <=> (exp # <<>> /\ DateTime(exp) <= validated.at)
              /\ validated.err \in {nil, ErrExpiredToken}
              /\ exp = <<>>
                    => /\ validated.err = nil
                       /\ validated.claims # <<>>
                       /\ ~IsExpired(validated.claims[1], validated.at)

C20_Witness ==
    /\ validated # NoResult /\ Verifies(validated.token, validated.secret)
    /\ issue # NoIssue /\ issue.ttl > 0
    /\ DateTime(validated.token.payload.exp) = validated.at
    /\ validated.err = ErrExpiredToken

\* The expiry of token t is at or before the time now.
PastExpiry(t, now) == t.payload.exp # <<>> /\ DateTime(t.payload.exp) <= now

\* C21: the error of ValidateToken is decided by the first check that fails,
\* in this order: the empty string gives ErrInvalidToken (the parser, which
\* finds it malformed, is not asked); a string that is not a well-formed token
\* gives ErrMalformedToken; a method that is not HMAC or a signature that does
\* not match gives ErrInvalidToken; an expiry that is past gives
\* ErrExpiredToken; else there is no error.  A token that is tampered with and
\* expired gives ErrInvalidToken.
C21_FirstFailingCheck ==
    validated # NoResult
       => validated.err =
             IF validated.token = EmptyString THEN ErrInvalidToken
             ELSE IF validated.token.kind # "jwt" THEN ErrMalformedToken
             ELSE IF ~Verifies(validated.token, validated.secret)
             THEN ErrInvalidToken
             ELSE IF PastExpiry(validated.token, validated.at)
             THEN ErrExpiredToken
             ELSE nil

\* ValidateToken has just returned ErrInvalidToken for a token whose payload
\* is not the one its signature was made for, under the secret of that
\* signature, and whose expiry is past.
C21_Witness ==
    /\ validated # NoResult
    /\ validated.token.kind = "jwt"
    /\ validated.token.alg \in HMACMethods
    /\ validated.token.sig # <<>>
    /\ validated.token.sig[1].key = validated.secret
    /\ validated.token.sig[1].payload # validated.token.payload
    /\ PastExpiry(validated.token, validated.at)
    /\ validated.err = ErrInvalidToken

\* C22: ValidateToken of a well-formed token whose header names a method that
\* is not an HMAC method returns ErrInvalidToken and nil claims, whatever the
\* payload, the signature and the expiry of the token, and the secret has no
\* part in it: the call returns the same with every secret.
C22_MethodRefused ==
    (validated # NoResult /\ validated.token.kind = "jwt"
                          /\ validated.token.alg \notin HMACMethods)
       => /\ validated.err = ErrInvalidToken
          /\ validated.claims = <<>>
          /\ \A s \in Secrets :
                ValidateToken(validated.token, s, validated.at)
                   = [claims |-> validated.claims, err |-> validated.err]

\* ValidateToken has just refused a token that has not expired, whose header
\* names "RS256" or "none", and whose signature was made for its payload with
\* the secret of the call.
C22_Witness ==
    /\ validated # NoResult
    /\ validated.token.kind = "jwt"
    /\ validated.token.alg \notin HMACMethods
    /\ validated.token.sig
          = <<HMAC(validated.token.alg, validated.token.payload, validated.secret)>>
    /\ ~PastExpiry(validated.token, validated.at)
    /\ validated.err = ErrInvalidToken

\* ---------------------------------------------------------------- adapters
\* C23: in the AuthMiddleware of gin and of go-zero, a request whose path is
\* no skip path and lies under the directory of no "path/*" skip path reaches
\* the next handler only if its Authorization header is "Bearer " followed by
\* a token that ValidateToken accepts under the configured secret, and then
\* the user id put in the context is the UserID of the verified claims; every
\* other such request is answered with 401 and next is not called.
C23_AuthRequired ==
    (served # NoServed /\ ~UnderSkipPath(SkipPaths, served.path))
       => LET r == ValidateToken(served.token, served.secret, served.at)
              accepted == served.scheme = "Bearer " /\ r.err = nil
          IN  /\ served.next
                    => accepted /\ served.userID = <<r.claims[1].UserID>>
              /\ ~accepted
                    => served.status = StatusUnauthorized /\ ~served.next

\* ------------------------------------------------------------ the Client
\* C24: every step that changes a key from or to the record of a lock is the
\* passive expiry of the store as time passes, a set-if-absent that found the
\* key absent, or a deletion or a change of the expiry alone made for a
\* caller that has a lock with the value the key holds: no operation of the
\* Client writes, deletes or re-expires the key of a lock whatever it holds.
C24_OnlyPrimitives ==
    [][\A k \in Keys :
          (store'[k] # store[k] /\ (store[k].by # "" \/ store'[k].by # ""))
             => \/ store' = Expired(store)
                \/ store[k] = Absent /\ store'[k] # Absent
                \/ \E c \in Callers : \E h \in HandlesOf(c) :
                      /\ h.key = k /\ h.value = store[k].val
                      /\ \/ store'[k] = Absent
                         \/ [store'[k] EXCEPT !.exp = store[k].exp] = store[k]]_vars

\* ------------------------------------------------------------ Lock, again
\* C25: a Lock call whose deadline has elapsed calls TryLock no more: every
\* TryLock of a Lock is called with time left before the deadline, and a Lock
\* that leaves its wait when the deadline has elapsed returns, with a timeout
\* error and no lock, even if the retry timer is ready too.
C25_NoAttemptAfterDeadline ==
    [][\A c \in Callers :
          /\ (op'[c] = "Lock" /\ attempts'[c] > attempts[c])
                => /\ pc'[c] = "call"
                   /\ deadline'[c] > 0
                   /\ op[c] = "Lock" => deadline[c] > 0
          /\ (op[c] = "Lock" /\ deadline[c] = 0 /\ pc[c] = "wait"
                 /\ pc'[c] # "wait")
                => /\ pc'[c] = "idle"
                   /\ ret'.caller = c /\ ret'.op = "Lock"
                   /\ ret'.err # nil
                   /\ ret'.err[1] \in {"lock acquisition timeout",
                                      "lock acquisition timeout during retry"}
                   /\ handle'[c] = NoLock]_vars

\* A Lock has just returned from the head of its loop with the error of the
\* deadline, after a wait whose timer fired, while the key is free.
C25_Witness ==
    /\ ret = [caller |-> "c1", op |-> "Lock",
              err |-> Errorf("lock acquisition timeout", ErrLockNotAcquired)]
    /\ \A k \in Keys : store[k] = Absent

C28_SectionsDisjoint ==
    \A c \in Callers, d \in Callers :
        c # d /\ pc[c] = "fn"
           => /\ ~(pc[d] = "fn" /\ wlLock[d].key = wlLock[c].key)
              /\ ~(/\ ret.caller = d /\ ret.op \in {"TryLock", "Lock"}
                    /\ ret.err = nil
                    /\ handle[d].key = wlLock[c].key)

\* C29: when TryLock or Lock returns an error, the store holds no record
\* that a SetNX of that call wrote.
C29_NoOrphanRecord ==
    [][\A c \in Callers :
          (/\ ret'.caller = c
           /\ ret'.op \in {"TryLock", "Lock"}
           /\ ret'.err # nil)
             => ~(/\ value[c] # NoValue
                  /\ store'[key[c]].by = c
                  /\ store'[key[c]].val = value[c])]_vars

\* C30: the options passed to Lock are used as they are, so that Lock and
\* WithLock with a LockTimeout <= 0 return "lock acquisition timeout: context
\* deadline exceeded" in the step of the call, without a TryLock attempt and
\* without touching the store, the key being free or not; WithLock enters fn
\* only with the lock of a successful attempt, and a WithLock that ends
\* without running fn returns the error of the acquisition.
C30_OptionsAsPassed ==
    [][/\ \A c \in Callers, k \in Keys, opts \in Passed :
             (/\ pc[c] = "idle"
              /\ (ret'.caller = c \/ pc'[c] = "call")
              /\ opts[1].LockTimeout <= 0
              /\ \/ Lock(c, k, OptionsOf(opts))
                 \/ WithLock(c, k, OptionsOf(opts)))
                => /\ ret'.caller = c
                   /\ ret'.op \in {"Lock", "WithLock"}
                   /\ ret'.err = Errorf("lock acquisition timeout", DeadlineExceeded)
                   /\ pc'[c] = "idle"
                   /\ attempts'[c] = 0
                   /\ handle'[c] = NoLock
                   /\ store' = store
       /\ \A c \in Callers :
             (pc[c] # "fn" /\ pc'[c] = "fn")
                => /\ op[c] = "WithLock" /\ pc[c] = "resp" /\ reply[c]
                   /\ wlLock'[c] = [key |-> key[c], value |-> value[c],
                                    ttl |-> options[c].TTL]
       /\ \A c \in Callers :
             (ret'.caller = c /\ ret'.op = "WithLock" /\ pc[c] # "fn")
                => /\ ret'.err # nil
                   /\ pc'[c] = "idle"
                   /\ wlLock'[c] = NoLock]_vars
C30_Witness ==
    /\ ret = [caller |-> "c1", op |-> "WithLock",
              err |-> Errorf("lock acquisition timeout", DeadlineExceeded)]
    /\ \A k \in Keys : store[k] = Absent
    /\ attempts["c1"] = 0

====
